---- MODULE Spec2Model ----
(***************************************************************************)
(* Task Manager process (task-manager/src/lib.rs).                         *)
(*                                                                         *)
(* State: the fields of TaskManagerState, the position of the startup     *)
(* hook, the async handlers suspended at their storage call, and the      *)
(* response / WebSocket pushes produced by the handler step taken last.   *)
(*                                                                         *)
(* An async handler (initialize, create_task, update_task_status) is two  *)
(* steps: the code up to its .await, and the code after the storage reply *)
(* arrived.  Other handlers run between the two.                           *)
(***************************************************************************)
EXTENDS Integers, Sequences, FiniteSets, Bags, TLC

\* ---------------------------------------------------------------- bounds
\* Requests (HTTP, local/remote, WebSocket frames) the host delivers to the
\* process in one run; request_count and task_creation_count (u64 in the code)
\* never exceed it.
MaxMessages == 3
\* Handlers that may be suspended at their storage call at the same time.
MaxInFlight == 2
\* Tasks the storage process may hold when the process starts.
MaxStored == 1

\* ---------------------------------------------------------------- values
ClientIds == {"alice", "bob"}
Channels == {7, 8}

\* Option<T>
None == <<>>
Some(x) == <<x>>

\* enum TaskStatus
TaskStatus == {"Pending", "InProgress", "Completed", "Cancelled"}

\* SystemTime::now() in seconds: the one reading the model distinguishes.
Now == 1700000000

\* struct NewTaskRequest: the request the model sends.  It differs from the
\* seed task and from the stored tasks in title, description and assignee.
NewTaskRequest ==
    {[title |-> "B", description |-> "d", assigned_to |-> Some("bob")]}


\* SendResult<T>: Success(value) | Timeout | Offline | DeserializationError(e)
SendFailures == {"Timeout", "Offline", "DeserializationError"}
Failure(kind) == [kind |-> kind, value |-> None]
Success(v) == [kind |-> "Success", value |-> Some(v)]

\* SendResult::is_ok
is_ok(send_result) == send_result.kind = "Success"

\* Replies add_task_remote_rpc can resolve to (SendResult<bool>).
StoreResults == {Success(TRUE), Success(FALSE)} \cup {Failure(k) : k \in SendFailures}

VARIABLES
    tasks,                  \* HashMap<String, Task>
    active_ws_connections,  \* HashMap<u32, String>: channel_id -> client_id
    request_count,          \* u64
    task_creation_count,    \* u64
    phase,                  \* "new" | "loading" | "serving": position of the startup hook
    stored,                 \* Vec<Task> the storage process answers the initial load with
    in_flight,              \* bag of the handlers suspended at store_task_in_storage(..).await
    ws_left,                \* per channel, the frame that took it out of the directory
    delivered,              \* requests the host has dispatched to a handler so far
    last                    \* the handler step taken last: its request, response and pushes

vars == <<tasks, active_ws_connections, request_count, task_creation_count,
          phase, stored, in_flight, ws_left, delivered, last>>

\* ---------------------------------------------------------------- helpers
\* insert that keeps the value a present key already has.
insert_if_absent(map, key, value) ==
    [k \in (DOMAIN map) \cup {key} |-> IF k \in DOMAIN map THEN map[k] ELSE value]

\* HashMap::insert: the value replaces whatever the key held.
insert(map, key, value) ==
    [k \in (DOMAIN map) \cup {key} |-> IF k = key THEN value ELSE map[k]]

\* remove that leaves the entry in the map.
remove_keep(map, key) == map

\* HashMap::remove: nothing happens when the key is absent.
remove(map, key) == [k \in (DOMAIN map) \ {key} |-> map[k]]

RECURSIVE SetToSeq(_)
SetToSeq(S) ==
    IF S = {} THEN <<>>
    ELSE LET x == CHOOSE y \in S : TRUE IN <<x>> \o SetToSeq(S \ {x})

\* HashMap::values().cloned().collect(): every value once, in the map's
\* (unspecified, fixed for one map) iteration order.
values(map) ==
    LET keys == SetToSeq(DOMAIN map) IN [i \in 1..Len(keys) |-> map[keys[i]]]

\* SelectTasks without the filter on the status.
SelectTasks_all(seq, status) == seq

RECURSIVE SelectTasks(_, _)
SelectTasks(seq, status) ==
    IF seq = <<>> THEN <<>>
    ELSE IF Head(seq).status = status
         THEN <<Head(seq)>> \o SelectTasks(Tail(seq), status)
         ELSE SelectTasks(Tail(seq), status)

\* Iterator::filter(..).count()
count_status(map, status) == Cardinality({k \in DOMAIN map : map[k].status = status})

Max(S) == CHOOSE x \in S : \A y \in S : y <= x

\* Uuid::new_v4().to_string(): a string no earlier call returned.  The code
\* only compares identifiers for equality, so the k-th identifier handed out
\* is named k; every identifier handed out so far is a key of the map or of
\* the storage.
uuid_new_v4 == 1 + Max({0} \cup (DOMAIN tasks) \cup {stored[i].id : i \in 1..Len(stored)})

\* Identifiers a request can name: those handed out so far (keys of the map,
\* or of the storage when the load failed) and one never handed out.
Ids == 1..uuid_new_v4

\* struct TaskStatusUpdateRequest: the requests the model sends.  The code
\* names Pending and Completed only; InProgress stands for the statuses it
\* treats alike, so no request carries Cancelled.
TaskStatusUpdateRequest == [task_id : Ids, new_status : TaskStatus \ {"Cancelled"}]

\* A handler suspended at its storage call: create_task holds the Task it
\* built, update_task_status the borrow of the entry of task_id; for the
\* latter `task` records the entry as the handler wrote it, which the handler
\* itself never reads again.
Suspended(handler, task_id, task) == [handler |-> handler, task_id |-> task_id, task |-> task]

\* The host hands the process one more request.
dispatch == delivered < MaxMessages /\ delivered' = delivered + 1

\* What the handler step recorded in `last` was given (arg), what it found or
\* generated on the way (local), what it returned (resp) and the WebSocket
\* pushes it made (sends).
Step(op, arg, local, resp, sends) ==
    [op |-> op, arg |-> arg, local |-> local, resp |-> resp, sends |-> sends]

\* ---------------------------------------------------------------- startup
\* The seed task of initialize.
default_task(id) ==
    [id |-> id, title |-> "Welcome Task", description |-> "This is your first task!",
     status |-> "Pending", created_at |-> Now, assigned_to |-> None]

\* A task as the storage process holds it from an earlier session.  The
\* initial load asks for TaskStatus::Pending.
StoredTask(id) ==
    [id |-> id, title |-> "A", description |-> "d", status |-> "Pending",
     created_at |-> Now, assigned_to |-> None]

\* What the storage process may hold at startup: the first n identifiers.
StoredLists == {[i \in 1..n |-> StoredTask(i)] : n \in 0..MaxStored}

TypeOK ==
    /\ phase \in {"new", "loading", "serving"}
    /\ delivered \in 0..MaxMessages
    /\ request_count \in 0..delivered
    /\ task_creation_count \in 0..request_count
    /\ DOMAIN tasks \subseteq Ids
    /\ \A id \in DOMAIN tasks : tasks[id].id = id /\ tasks[id].status \in TaskStatus
    /\ DOMAIN active_ws_connections \subseteq Channels

\* TaskManagerState::default(), before the startup hook ran.
Init ==
    /\ tasks = <<>>
    /\ active_ws_connections = <<>>
    /\ request_count = 0
    /\ task_creation_count = 0
    /\ phase = "new"
    /\ stored \in StoredLists
    /\ in_flight = EmptyBag
    /\ ws_left = [c \in Channels |-> "no"]
    /\ delivered = 0
    /\ last = Step("default", None, None, None, <<>>)

\* initialize, up to get_stored_tasks().await
initialize ==
    /\ phase = "new"
    /\ tasks' = insert(tasks, uuid_new_v4, default_task(uuid_new_v4))
    /\ phase' = "loading"
    /\ last' = Step("initialize", None, None, None, <<>>)
    /\ UNCHANGED <<delivered, active_ws_connections, request_count, task_creation_count,
                   stored, in_flight, ws_left>>

\* get_stored_tasks: the SendResult of the load as Result<Vec<Task>, String>
get_stored_tasks(send_result) ==
    IF send_result.kind = "Success"
    THEN [ok |-> TRUE, value |-> send_result.value[1]]
    ELSE [ok |-> FALSE, value |-> send_result.kind]

RECURSIVE insert_all(_, _)
\* for task in stored_tasks { self.tasks.insert(task.id.clone(), task); }
insert_all(map, stored_tasks) ==
    IF stored_tasks = <<>> THEN map
    ELSE insert_all(insert(map, Head(stored_tasks).id, Head(stored_tasks)), Tail(stored_tasks))

\* load_stored_tasks that replaces the map by what was loaded.
load_stored_tasks_replace(map, result) ==
    IF result.ok THEN insert_all(<<>>, result.value) ELSE map

\* The match on get_stored_tasks().await in initialize
load_stored_tasks(map, result) ==
    IF result.ok THEN insert_all(map, result.value) ELSE map

\* Replies the initial load can resolve to (SendResult<Vec<Task>>).
LoadResults == {Success(stored)} \cup {Failure(k) : k \in SendFailures}

\* initialize, after get_stored_tasks().await
initialize_reply ==
    /\ phase = "loading"
    /\ \E send_result \in LoadResults :
         /\ tasks' = load_stored_tasks(tasks, get_stored_tasks(send_result))
         /\ last' = Step("initialize_reply", send_result, None, None, <<>>)
    /\ phase' = "serving"
    /\ UNCHANGED <<delivered, active_ws_connections, request_count, task_creation_count,
                   stored, in_flight, ws_left>>

\* ---------------------------------------------------------------- responses
\* struct TaskResponse
TaskResponse(success, task, storage_status, message) ==
    [success |-> success, task |-> task, storage_status |-> storage_status,
     message |-> message]

\* serde_json::to_vec: the JSON text of a value, kept as the value it encodes.
to_vec(value) == <<"json", value>>

\* hyperware_app_common::get_server(): the HTTP server the process bound its
\* endpoints on, present once the process serves requests.
get_server == TRUE

\* server.send_ws_message(channel_id, WsMessageType::Binary, payload): the
\* attempt and whether it succeeded.
send_ws_message(channel_id, payload, ok) ==
    [channel_id |-> channel_id, payload |-> payload, ok |-> ok]

\* How the sends of one broadcast can go: each channel's send succeeds or
\* fails on its own.
SendOutcomes(connections) == [DOMAIN connections -> BOOLEAN]

\* broadcast_task_update that pushes to every channel, subscribed or not.
broadcast_task_update_all(connections, task, send_ok) ==
    LET keys == SetToSeq(Channels) IN
    [i \in 1..Len(keys) |->
        send_ws_message(keys[i], to_vec(task),
                        IF keys[i] \in DOMAIN send_ok THEN send_ok[keys[i]] ELSE TRUE)]

RECURSIVE send_until_failure(_, _, _)
send_until_failure(keys, payload, send_ok) ==
    IF keys = <<>> THEN <<>>
    ELSE <<send_ws_message(Head(keys), payload, send_ok[Head(keys)])>>
         \o (IF send_ok[Head(keys)]
             THEN send_until_failure(Tail(keys), payload, send_ok)
             ELSE <<>>)

\* broadcast_task_update that gives up at the first send that fails.
broadcast_task_update_stop(connections, task, send_ok) ==
    send_until_failure(SetToSeq(DOMAIN connections), to_vec(task), send_ok)

\* broadcast_task_update: one send_ws_message per key of the directory, its
\* result dropped (let _ =).
broadcast_task_update(connections, task, send_ok) ==
    IF get_server
    THEN LET keys == SetToSeq(DOMAIN connections) IN
         [i \in 1..Len(keys) |-> send_ws_message(keys[i], to_vec(task), send_ok[keys[i]])]
    ELSE <<>>

\* ---------------------------------------------------------------- create_task
\* new_task with the wrong initial status.
new_task_completed(task_id, new_task_req) ==
    [id |-> task_id, title |-> new_task_req.title,
     description |-> new_task_req.description, status |-> "Completed",
     created_at |-> Now, assigned_to |-> new_task_req.assigned_to]

\* new_task that drops the assignee of the request.
new_task_unassigned(task_id, new_task_req) ==
    [id |-> task_id, title |-> new_task_req.title,
     description |-> new_task_req.description, status |-> "Pending",
     created_at |-> Now, assigned_to |-> None]

\* The Task built by create_task.
new_task(task_id, new_task_req) ==
    [id |-> task_id, title |-> new_task_req.title,
     description |-> new_task_req.description, status |-> "Pending",
     created_at |-> Now, assigned_to |-> new_task_req.assigned_to]

\* create_task_response that reports the storage call as done whatever it
\* resolved to.
create_task_response_always_stored(task, storage_result) ==
    TaskResponse(TRUE, Some(task), TRUE, "Task created successfully")

\* The TaskResponse create_task returns.
create_task_response(task, storage_result) ==
    TaskResponse(TRUE, Some(task), is_ok(storage_result), "Task created successfully")

\* create_task with Uuid::new_v4() returning task_id, up to
\* store_task_in_storage(&task).await
create_task_with(task_id, new_task_req) ==
    LET task == new_task(task_id, new_task_req) IN
    /\ phase = "serving"
    /\ dispatch
    /\ BagCardinality(in_flight) < MaxInFlight
    /\ request_count' = request_count + 1
    /\ tasks' = insert(tasks, task.id, task)
    /\ task_creation_count' = task_creation_count + 1
    /\ in_flight' = in_flight (+) SetToBag({Suspended("create_task", task.id, Some(task))})
    /\ last' = Step("create_task", new_task_req, [task_id |-> task_id], None, <<>>)
    /\ UNCHANGED <<active_ws_connections, phase, stored, ws_left>>

create_task ==
    /\ delivered < MaxMessages
    /\ \E new_task_req \in NewTaskRequest :
         create_task_with(uuid_new_v4, new_task_req)

\* create_task that issues the storage call again when it failed.
create_task_reply_retry ==
    \E handler \in BagToSet(in_flight), storage_result \in StoreResults,
       send_ok \in SendOutcomes(active_ws_connections) :
        /\ handler.handler = "create_task"
        /\ IF is_ok(storage_result)
           THEN /\ last' = Step("create_task_reply", storage_result, handler,
                                Some(create_task_response(handler.task[1], storage_result)),
                                broadcast_task_update(active_ws_connections,
                                                      handler.task[1], send_ok))
                /\ in_flight' = in_flight (-) SetToBag({handler})
           ELSE /\ last' = Step("create_task_retry", storage_result, handler, None, <<>>)
                /\ in_flight' = in_flight
        /\ UNCHANGED <<delivered, tasks, active_ws_connections, request_count,
                       task_creation_count, phase, stored, ws_left>>

\* create_task, after store_task_in_storage(&task).await
create_task_reply ==
    \E handler \in BagToSet(in_flight), storage_result \in StoreResults,
       send_ok \in SendOutcomes(active_ws_connections) :
        /\ handler.handler = "create_task"
        /\ LET task == handler.task[1] IN
             last' = Step("create_task_reply", storage_result, handler,
                          Some(create_task_response(task, storage_result)),
                          broadcast_task_update(active_ws_connections, task, send_ok))
        /\ in_flight' = in_flight (-) SetToBag({handler})
        /\ UNCHANGED <<delivered, tasks, active_ws_connections, request_count,
                       task_creation_count, phase, stored, ws_left>>

\* ---------------------------------------------------------------- reads
\* get_all_tasks
get_all_tasks ==
    /\ phase = "serving"
    /\ dispatch
    /\ request_count' = request_count + 1
    /\ last' = Step("get_all_tasks", None, None, Some(values(tasks)), <<>>)
    /\ UNCHANGED <<tasks, active_ws_connections, task_creation_count, phase,
                   stored, in_flight, ws_left>>

\* get_task_response that answers an absent identifier with a placeholder.
get_task_response_placeholder(map, task_id) ==
    IF task_id \in DOMAIN map
    THEN TaskResponse(TRUE, Some(map[task_id]), TRUE, "Task found")
    ELSE TaskResponse(TRUE, Some(default_task(task_id)), TRUE, "Task found")

\* The match of get_task on self.tasks.get(&task_id)
get_task_response(map, task_id) ==
    IF task_id \in DOMAIN map
    THEN TaskResponse(TRUE, Some(map[task_id]), TRUE, "Task found")
    ELSE TaskResponse(FALSE, None, TRUE, "Task not found")

\* get_task
get_task ==
    /\ phase = "serving"
    /\ dispatch
    /\ request_count' = request_count + 1
    /\ \E task_id \in Ids :
         last' = Step("get_task", task_id, None,
                      Some(get_task_response(tasks, task_id)), <<>>)
    /\ UNCHANGED <<tasks, active_ws_connections, task_creation_count, phase,
                   stored, in_flight, ws_left>>

\* TaskManagerStats with total_tasks taken from the creation counter.
TaskManagerStats_created(map, creation_count, requests) ==
    [total_tasks |-> creation_count,
     pending_tasks |-> count_status(map, "Pending"),
     completed_tasks |-> count_status(map, "Completed"),
     creation_count |-> creation_count,
     request_count |-> requests]

\* TaskManagerStats with pending_tasks counted without the status filter.
TaskManagerStats_unfiltered(map, creation_count, requests) ==
    [total_tasks |-> Cardinality(DOMAIN map),
     pending_tasks |-> Cardinality(DOMAIN map),
     completed_tasks |-> count_status(map, "Completed"),
     creation_count |-> creation_count,
     request_count |-> requests]

\* struct TaskManagerStats, as get_statistics computes it
TaskManagerStats(map, creation_count, requests) ==
    [total_tasks |-> Cardinality(DOMAIN map),
     pending_tasks |-> count_status(map, "Pending"),
     completed_tasks |-> count_status(map, "Completed"),
     creation_count |-> creation_count,
     request_count |-> requests]

\* get_statistics
get_statistics ==
    /\ phase = "serving"
    /\ dispatch
    /\ last' = Step("get_statistics", None, None,
                    Some(TaskManagerStats(tasks, task_creation_count, request_count)),
                    <<>>)
    /\ UNCHANGED <<tasks, active_ws_connections, request_count, task_creation_count,
                   phase, stored, in_flight, ws_left>>

\* get_tasks_by_status
get_tasks_by_status ==
    /\ phase = "serving"
    /\ dispatch
    /\ \E status \in TaskStatus :
         last' = Step("get_tasks_by_status", status, None,
                      Some(SelectTasks(values(tasks), status)), <<>>)
    /\ UNCHANGED <<tasks, active_ws_connections, request_count,
                   task_creation_count, phase, stored, in_flight, ws_left>>

\* ---------------------------------------------------------------- update_task_status
\* set_status that leaves the write for after the storage call.
set_status_deferred(map, update_req) == map

\* set_status that refuses to reopen a Completed task.
set_status_checked(map, update_req) ==
    IF update_req.task_id \in DOMAIN map /\ map[update_req.task_id].status # "Completed"
    THEN [map EXCEPT ![update_req.task_id].status = update_req.new_status]
    ELSE map

\* set_status that creates the entry when the key is absent.
set_status_upsert(map, update_req) ==
    IF update_req.task_id \in DOMAIN map
    THEN [map EXCEPT ![update_req.task_id].status = update_req.new_status]
    ELSE insert(map, update_req.task_id,
                [default_task(update_req.task_id) EXCEPT !.status = update_req.new_status])

\* task.status = update_req.new_status on the entry get_mut found; the map
\* is left alone when the key is absent.
set_status(map, update_req) ==
    IF update_req.task_id \in DOMAIN map
    THEN [map EXCEPT ![update_req.task_id].status = update_req.new_status]
    ELSE map

\* The TaskResponse of the else branch of update_task_status.
update_not_found_response == TaskResponse(FALSE, None, FALSE, "Task not found")

\* The TaskResponse update_task_status returns for the entry `task` borrows.
update_task_response(task, storage_result) ==
    TaskResponse(TRUE, Some(task), is_ok(storage_result), "Task updated successfully")

\* update_task_status for one request: up to store_task_in_storage(task).await
\* when the key is present, the whole handler when it is absent.
update_task_status_with(update_req) ==
    /\ phase = "serving"
    /\ dispatch
    /\ request_count' = request_count + 1
    /\ tasks' = set_status(tasks, update_req)
    /\ IF update_req.task_id \in DOMAIN tasks
       THEN /\ BagCardinality(in_flight) < MaxInFlight
            /\ in_flight' = in_flight (+)
                    SetToBag({Suspended("update_task_status", update_req.task_id,
                                        Some(set_status(tasks, update_req)[update_req.task_id]))})
            /\ last' = Step("update_task_status", update_req,
                            [old_status |-> Some(tasks[update_req.task_id].status)],
                            None, <<>>)
       ELSE /\ in_flight' = in_flight
            /\ last' = Step("update_task_status", update_req,
                            [old_status |-> None],
                            Some(update_not_found_response), <<>>)
    /\ UNCHANGED <<active_ws_connections, task_creation_count, phase, stored, ws_left>>

update_task_status ==
    /\ delivered < MaxMessages
    /\ \E update_req \in TaskStatusUpdateRequest : update_task_status_with(update_req)

\* update_task_status, after store_task_in_storage(task).await.  `task` is the
\* &mut borrow of the map entry taken before the await: what it reads now is
\* the entry as the handlers that ran meanwhile left it.
update_task_status_reply ==
    \E handler \in BagToSet(in_flight), storage_result \in StoreResults,
       send_ok \in SendOutcomes(active_ws_connections) :
        /\ handler.handler = "update_task_status"
        /\ LET task == tasks[handler.task_id] IN
             last' = Step("update_task_status_reply", storage_result, handler,
                          Some(update_task_response(task, storage_result)),
                          broadcast_task_update(active_ws_connections, task, send_ok))
        /\ in_flight' = in_flight (-) SetToBag({handler})
        /\ UNCHANGED <<delivered, tasks, active_ws_connections, request_count,
                       task_creation_count, phase, stored, ws_left>>

\* ---------------------------------------------------------------- handle_websocket
\* enum WebSocketMessage
WebSocketMessage ==
    {[variant |-> "Subscribe", client_id |-> c] : c \in ClientIds}
        \cup {[variant |-> "Unsubscribe"]}

\* enum WsMessageType: Ping stands for the kinds the `_` arm ignores
\* (Text, Ping, Pong).
WsMessageType == {"Binary", "Close", "Ping"}

\* Payloads a frame can carry: the JSON of a WebSocketMessage, or bytes that
\* are none.
EmptyBlob == <<"bytes", "">>
Blobs == {to_vec(m) : m \in WebSocketMessage} \cup {EmptyBlob}

\* serde_json::from_slice::<WebSocketMessage>
from_slice(blob) ==
    IF blob[1] = "json" /\ blob[2] \in WebSocketMessage
    THEN [ok |-> TRUE, value |-> blob[2]]
    ELSE [ok |-> FALSE, value |-> None]

\* handle_websocket's Subscribe arm that builds the initial list without
\* going through get_all_tasks, leaving request_count alone.
ws_subscribe_uncounted(channel_id, client_id, frame) ==
    /\ active_ws_connections' = insert(active_ws_connections, channel_id, client_id)
    /\ request_count' = request_count
    /\ \E ok \in BOOLEAN :
         last' = Step("handle_websocket", frame, None, None,
                      IF get_server
                      THEN <<send_ws_message(channel_id, to_vec(values(tasks)), ok)>>
                      ELSE <<>>)
    /\ ws_left' = [ws_left EXCEPT ![channel_id] = "no"]

\* handle_websocket, Binary frame decoded as Subscribe { client_id }
ws_subscribe(channel_id, client_id, frame) ==
    /\ active_ws_connections' = insert(active_ws_connections, channel_id, client_id)
    \* let tasks = self.get_all_tasks();
    /\ request_count' = IF get_server THEN request_count + 1 ELSE request_count
    /\ \E ok \in BOOLEAN :
         last' = Step("handle_websocket", frame, None, None,
                      IF get_server
                      THEN <<send_ws_message(channel_id, to_vec(values(tasks)), ok)>>
                      ELSE <<>>)
    /\ ws_left' = [ws_left EXCEPT ![channel_id] = "no"]

\* handle_websocket, Binary frame decoded as Unsubscribe, or a Close frame
ws_remove(channel_id, frame, what) ==
    /\ active_ws_connections' = remove(active_ws_connections, channel_id)
    /\ last' = Step("handle_websocket", frame, None, None, <<>>)
    /\ ws_left' = IF channel_id \in DOMAIN active_ws_connections
                  THEN [ws_left EXCEPT ![channel_id] = what]
                  ELSE ws_left
    /\ UNCHANGED request_count

\* handle_websocket, a frame that is ignored
ws_ignore(frame) ==
    /\ last' = Step("handle_websocket", frame, None, None, <<>>)
    /\ UNCHANGED <<active_ws_connections, request_count, ws_left>>

handle_websocket ==
    /\ phase = "serving"
    /\ dispatch
    /\ \E channel_id \in Channels, message_type \in WsMessageType, blob \in Blobs :
        LET frame == [channel_id |-> channel_id, message_type |-> message_type,
                      blob |-> blob]
            ws_message == from_slice(blob)
        IN
        \* only a Binary frame's payload is looked at
        /\ message_type # "Binary" => blob = EmptyBlob
        /\ CASE message_type = "Binary" /\ ws_message.ok
                                        /\ ws_message.value.variant = "Subscribe" ->
                    ws_subscribe(channel_id, ws_message.value.client_id, frame)
             [] message_type = "Binary" /\ ws_message.ok
                                        /\ ws_message.value.variant = "Unsubscribe" ->
                    ws_remove(channel_id, frame, "Unsubscribe")
             [] message_type = "Close" -> ws_remove(channel_id, frame, "Close")
             [] OTHER -> ws_ignore(frame)
    /\ UNCHANGED <<tasks, task_creation_count, phase, stored, in_flight>>

Next ==
    \/ initialize
    \/ initialize_reply
    \/ create_task
    \/ create_task_reply
    \/ get_all_tasks
    \/ get_task
    \/ update_task_status
    \/ update_task_status_reply
    \/ get_statistics
    \/ get_tasks_by_status
    \/ handle_websocket

\* ---------------------------------------------------------------- claims
\* The statistics get_statistics would report now.
Stats == TaskManagerStats(tasks, task_creation_count, request_count)

\* The pushes the step taken last made to channel c.
PushesTo(c) == {i \in 1..Len(last.sends) : last.sends[i].channel_id = c}

\* The step taken last returned from a create_task or an update_task_status.
Returned == last.op \in {"create_task_reply", "update_task_status_reply"}

C1_CreateStep ==
    task_creation_count' # task_creation_count =>
        /\ last'.op = "create_task"
        /\ LET id == last'.local.task_id IN
             /\ id \notin DOMAIN tasks
             /\ DOMAIN tasks' = (DOMAIN tasks) \cup {id}
             /\ tasks'[id].id = id
             /\ tasks'[id].status = "Pending"
             /\ \A other \in DOMAIN tasks : tasks'[other] = tasks[other]
             /\ Suspended("create_task", id, Some(tasks'[id])) \in BagToSet(in_flight')

C1_Held ==
    \A h \in BagToSet(in_flight) :
        h.handler = "create_task" =>
            /\ h.task[1].status = "Pending"
            /\ h.task[1].id = h.task_id
            /\ h.task_id \in DOMAIN tasks
            /\ in_flight[h] = 1

C1_Response ==
    last.op = "create_task_reply" =>
        /\ last.resp[1].success
        /\ last.resp[1].task[1].status = "Pending"
        /\ last.resp[1].task[1].id \in DOMAIN tasks
        /\ \A h \in BagToSet(in_flight) :
               h.handler = "create_task" => h.task_id # last.resp[1].task[1].id

\* C1: every create_task generates an identifier that is no key of the
\* registry, adds exactly that key with a Pending task and touches no other
\* entry; keys never leave the registry, the tasks the suspended create
\* handlers hold and the task of every create response are Pending, and no
\* two of them carry the same identifier.
C1_UniquePending ==
    /\ [](C1_Held /\ C1_Response)
    /\ [][C1_CreateStep /\ (DOMAIN tasks \subseteq DOMAIN tasks')]_vars

C1_Witness ==
    /\ last.op = "create_task_reply"
    /\ task_creation_count = 2
    /\ Cardinality(DOMAIN tasks) >= 3
    /\ last.resp[1].task[1].status = "Pending"

C3_Step ==
    (/\ delivered' # delivered
     /\ last'.op = "update_task_status"
     /\ last'.arg.task_id \notin DOMAIN tasks) =>
        /\ last'.resp # None
        /\ ~last'.resp[1].success
        /\ last'.resp[1].task = None
        /\ request_count' = request_count + 1
        /\ tasks' = tasks
        /\ Stats'.total_tasks = Stats.total_tasks
        /\ task_creation_count' = task_creation_count
        /\ active_ws_connections' = active_ws_connections
        /\ in_flight' = in_flight
        /\ last'.sends = <<>>

\* C3: update_task_status on an absent id returns success = false with no
\* task, adds one to request_count, and leaves the task map, total_tasks,
\* task_creation_count and the subscriber directory alone; it suspends on no
\* storage call and pushes nothing.
C3_UpdateAbsent == [][C3_Step]_vars

C3_Witness ==
    /\ last.op = "update_task_status"
    /\ last.local.old_status = None
    /\ ~last.resp[1].success
    /\ request_count >= 1

\* C4: once the process serves requests, total_tasks of get_statistics is the
\* length of what get_all_tasks returns, and no step lowers total_tasks.
C4_TotalIsLength ==
    /\ [](phase = "serving" => Stats.total_tasks = Len(values(tasks)))
    /\ [][Stats'.total_tasks >= Stats.total_tasks]_vars

C4_Witness ==
    /\ phase = "serving"
    /\ task_creation_count >= 1
    /\ Stats.total_tasks = 3
    /\ Len(values(tasks)) = 3
    /\ \E id \in DOMAIN tasks : tasks[id].status = "Completed"

C6_Response ==
    Returned =>
        /\ last.resp[1].storage_status = (last.arg.kind = "Success")
        /\ last.arg.kind \in SendFailures => ~last.resp[1].storage_status
        /\ last.resp[1].success
        /\ last.resp[1].task # None
        /\ last.resp[1].task[1].id = last.local.task_id
        /\ last.local.task_id \in DOMAIN tasks
        /\ last.op = "update_task_status_reply" =>
               tasks[last.local.task_id] = last.resp[1].task[1]
        /\ last.op = "create_task_reply" =>
               /\ tasks[last.local.task_id].title = last.resp[1].task[1].title
               /\ tasks[last.local.task_id].description = last.resp[1].task[1].description
               /\ tasks[last.local.task_id].assigned_to = last.resp[1].task[1].assigned_to

\* C6: the response of create_task and of update_task_status on a present id
\* has storage_status = true exactly when the storage call resolved to
\* Success; whatever it resolved to, the response has success = true and
\* carries the task, the task is still in the registry, and the step that
\* returns changes no task.
C6_StorageStatus ==
    /\ []C6_Response
    /\ [][in_flight' # in_flight /\ delivered' = delivered => tasks' = tasks]_vars

C6_Witness ==
    /\ last.op = "create_task_reply"
    /\ last.arg.kind = "Timeout"
    /\ ~last.resp[1].storage_status
    /\ last.resp[1].success
    /\ last.resp[1].task[1].id \in DOMAIN tasks

\* What get_task(id) would return now for the task of the response the step
\* taken last returned.
GetReturned == get_task_response(tasks, last.resp[1].task[1].id)

\* C7 as stated: right after a create_task returned, get_task of the returned
\* identifier succeeds with the title, description, assignee and status
\* (Pending) of the response.
C7_Original ==
    last.op = "create_task_reply" =>
        /\ GetReturned.success
        /\ GetReturned.task[1].title = last.resp[1].task[1].title
        /\ GetReturned.task[1].description = last.resp[1].task[1].description
        /\ GetReturned.task[1].assigned_to = last.resp[1].task[1].assigned_to
        /\ GetReturned.task[1].status = last.resp[1].task[1].status
        /\ GetReturned.task[1].status = "Pending"

C7_AfterInsert ==
    last.op = "create_task" =>
        LET r == get_task_response(tasks, last.local.task_id) IN
        /\ r.success
        /\ r.task[1].id = last.local.task_id
        /\ r.task[1].title = last.arg.title
        /\ r.task[1].description = last.arg.description
        /\ r.task[1].assigned_to = last.arg.assigned_to
        /\ r.task[1].status = "Pending"

C7_AfterReturn ==
    last.op = "create_task_reply" =>
        /\ GetReturned.success
        /\ GetReturned.task[1].id = last.resp[1].task[1].id
        /\ GetReturned.task[1].title = last.resp[1].task[1].title
        /\ GetReturned.task[1].description = last.resp[1].task[1].description
        /\ GetReturned.task[1].assigned_to = last.resp[1].task[1].assigned_to
        /\ last.resp[1].task[1].status = "Pending"

C7_OnlyUpdateChangesStatus ==
    \A id \in DOMAIN tasks :
        /\ id \in DOMAIN tasks'
        /\ [tasks'[id] EXCEPT !.status = tasks[id].status] = tasks[id]
        /\ tasks'[id].status # tasks[id].status =>
               /\ last'.op = "update_task_status"
               /\ last'.arg.task_id = id
               /\ last'.arg.new_status = tasks'[id].status

C7_Sequential ==
    (/\ last.op = "create_task"
     /\ last'.op = "create_task_reply"
     /\ last'.local.task_id = last.local.task_id) =>
        get_task_response(tasks', last.local.task_id).task = last'.resp[1].task

\* C7 (amended): right after a create_task returned, get_task of the returned
\* identifier succeeds with the title, description and assignee of the request
\* and the response; the status is Pending from the insertion on until an
\* update_task_status on that identifier is handled, which only happens
\* before the get when it is handled while the create waits for the storage.
C7_CreateThenGet ==
    /\ [](C7_AfterInsert /\ C7_AfterReturn)
    /\ [][C7_OnlyUpdateChangesStatus /\ C7_Sequential]_vars

C7_Witness ==
    /\ last.op = "create_task_reply"
    /\ GetReturned.success
    /\ GetReturned.task[1].title = "B"
    /\ GetReturned.task[1].assigned_to = Some("bob")
    /\ GetReturned.task[1].status = "Completed"
    /\ last.resp[1].task[1].status = "Pending"

\* The identifiers of the tasks the initial load put into the registry.
Loaded == {stored[i].id : i \in 1..Len(stored)} \cap DOMAIN tasks

\* The one request delivered since startup was a create_task.
C8_AfterCreate == phase = "serving" /\ delivered = 1 /\ task_creation_count = 1

\* The two requests delivered since startup were a create_task and then
\* update_task_status(Completed) on the task it created, the one with the
\* identifier handed out last.
C8_AfterUpdate ==
    /\ delivered = 2
    /\ task_creation_count = 1
    /\ last.op = "update_task_status"
    /\ last.arg = [task_id |-> Max(DOMAIN tasks), new_status |-> "Completed"]

\* C8 as stated: from a freshly initialized process, after creating task A
\* get_all_tasks has length 2; after update_task_status(A.id, Completed),
\* completed_tasks = 1 and pending_tasks = 1.
C8_Original ==
    /\ C8_AfterCreate => Len(values(tasks)) = 2
    /\ C8_AfterUpdate => Stats.completed_tasks = 1 /\ Stats.pending_tasks = 1

\* C8 (amended): the same, for a process whose initial load put no task into
\* the registry (it failed, or the storage held none).
C8_Scenario ==
    Loaded = {} =>
        /\ C8_AfterCreate => Len(values(tasks)) = 2
        /\ C8_AfterUpdate => Stats.completed_tasks = 1 /\ Stats.pending_tasks = 1

C8_Witness ==
    /\ Loaded = {}
    /\ C8_AfterUpdate
    /\ Len(values(tasks)) = 2
    /\ Stats.completed_tasks = 1
    /\ Stats.pending_tasks = 1

\* C9: the reply to the initial load can always be handled and ends startup;
\* after a failed load the registry holds exactly the seed task (Pending, no
\* assignee); after a successful one it holds the seed task and every loaded
\* task; requests can then be handled.
C9_Startup ==
    /\ phase = "loading" => ENABLED initialize_reply
    /\ (phase = "serving" /\ delivered < MaxMessages) => ENABLED get_all_tasks
    /\ last.op = "initialize_reply" =>
           /\ phase = "serving"
           /\ \E seed \in DOMAIN tasks :
                  /\ tasks[seed].title = "Welcome Task"
                  /\ tasks[seed].status = "Pending"
                  /\ tasks[seed].assigned_to = None
                  /\ tasks[seed].id = seed
                  /\ IF last.arg.kind \in SendFailures
                     THEN DOMAIN tasks = {seed}
                     ELSE /\ DOMAIN tasks = {seed} \cup {stored[i].id : i \in 1..Len(stored)}
                          /\ Cardinality(DOMAIN tasks) = 1 + Len(stored)
                          /\ \A i \in 1..Len(stored) : tasks[stored[i].id] = stored[i]

C9_Witness ==
    /\ stored # <<>>
    /\ phase = "serving"
    /\ delivered >= 1
    /\ Cardinality(DOMAIN tasks) = 1
    /\ \A id \in DOMAIN tasks : tasks[id].title = "Welcome Task"

C10_Step ==
    (delivered' # delivered /\ last'.op = "get_task") =>
        /\ request_count' = request_count + 1
        /\ tasks' = tasks
        /\ task_creation_count' = task_creation_count
        /\ last'.arg \in DOMAIN tasks =>
               /\ last'.resp[1].success
               /\ last'.resp[1].task = Some(tasks[last'.arg])
        /\ last'.arg \notin DOMAIN tasks =>
               /\ ~last'.resp[1].success
               /\ last'.resp[1].task = None

\* C10: get_task adds exactly one to request_count whether or not the id is
\* present and never changes the task map; for an absent id it returns
\* success = false with no task.
C10_GetTask == [][C10_Step]_vars

C10_Witness ==
    /\ last.op = "get_task"
    /\ last.arg \notin DOMAIN tasks
    /\ ~last.resp[1].success
    /\ last.resp[1].task = None
    /\ request_count >= 1

C11_Step ==
    (delivered' # delivered /\ last'.op = "get_tasks_by_status") =>
        LET result == last'.resp[1]
            matching == {id \in DOMAIN tasks : tasks[id].status = last'.arg}
        IN
        /\ {result[i] : i \in 1..Len(result)} = {tasks[id] : id \in matching}
        /\ Len(result) = Cardinality(matching)
        /\ UNCHANGED <<tasks, active_ws_connections, request_count,
                       task_creation_count, in_flight>>
        /\ last'.sends = <<>>

\* C11: get_tasks_by_status(status) returns exactly the tasks of the registry
\* whose status is the argument, each once, and leaves the task map, the
\* subscriber directory and both counters unchanged; it starts no storage
\* call and makes no push.
C11_ByStatusPure == [][C11_Step]_vars

C11_Witness ==
    /\ last.op = "get_tasks_by_status"
    /\ last.arg = "Completed"
    /\ Len(last.resp[1]) = 1
    /\ Cardinality(DOMAIN tasks) >= 2
    /\ request_count = 1

C12_Attempts ==
    Returned =>
        /\ \A c \in DOMAIN active_ws_connections : Cardinality(PushesTo(c)) = 1
        /\ \A i \in 1..Len(last.sends) :
               /\ last.sends[i].channel_id \in DOMAIN active_ws_connections
               /\ last.sends[i].payload = to_vec(last.resp[1].task[1])

C12_Response ==
    /\ last.op = "create_task_reply" =>
           last.resp = Some(TaskResponse(TRUE, last.local.task, is_ok(last.arg),
                                         "Task created successfully"))
    /\ last.op = "update_task_status_reply" =>
           last.resp = Some(TaskResponse(TRUE, Some(tasks[last.local.task_id]),
                                         is_ok(last.arg), "Task updated successfully"))

\* C12: a broadcast attempts one send to every channel of the subscriber
\* directory, also to the channels that come after one whose send failed;
\* the response of the create or update is the one its task and storage
\* result determine, whichever sends failed, and the step that broadcasts
\* changes neither the registry nor the directory nor the counters.
C12_SendFailuresSwallowed ==
    /\ [](C12_Attempts /\ C12_Response)
    /\ [][Returned' /\ delivered' = delivered =>
             UNCHANGED <<tasks, active_ws_connections, request_count,
                         task_creation_count>>]_vars

C12_Witness ==
    /\ last.op = "create_task_reply"
    /\ Len(last.sends) = 2
    /\ ~last.sends[1].ok
    /\ last.sends[2].ok
    /\ last.resp[1].success
    /\ last.resp[1].storage_status

\* The handlers suspended at their storage call.
Waiting == BagToSet(in_flight)

\* C13 as stated: a read handled while an update_task_status(id, S) waits for
\* the storage observes status S for id (and a read handled while a
\* create_task waits observes the new task).
C13_Original ==
    \A h \in Waiting :
        /\ h.task_id \in DOMAIN tasks
        /\ (last.op = "get_task" /\ last.arg = h.task_id) =>
               /\ last.resp[1].success
               /\ h.handler = "update_task_status" =>
                      last.resp[1].task[1].status = h.task[1].status

\* Right after the step that suspended it, the registry holds what the
\* handler wrote.
C13_Applied ==
    /\ last.op = "create_task" =>
           /\ Suspended("create_task", last.local.task_id,
                        Some(tasks[last.local.task_id])) \in Waiting
           /\ tasks[last.local.task_id].status = "Pending"
    /\ (last.op = "update_task_status" /\ last.resp = None) =>
           /\ Suspended("update_task_status", last.arg.task_id,
                        Some(tasks[last.arg.task_id])) \in Waiting
           /\ tasks[last.arg.task_id].status = last.arg.new_status

\* A read handled during the wait answers from the registry as it is.
C13_Reads ==
    \A h \in Waiting :
        /\ h.task_id \in DOMAIN tasks
        /\ [tasks[h.task_id] EXCEPT !.status = h.task[1].status] = h.task[1]
        /\ (last.op = "get_task" /\ last.arg = h.task_id) =>
               last.resp = Some(TaskResponse(TRUE, Some(tasks[h.task_id]), TRUE, "Task found"))
        /\ last.op = "get_all_tasks" =>
               \E i \in 1..Len(last.resp[1]) : last.resp[1][i] = tasks[h.task_id]
        /\ (last.op = "get_tasks_by_status" /\ last.arg = tasks[h.task_id].status) =>
               \E i \in 1..Len(last.resp[1]) : last.resp[1][i] = tasks[h.task_id]
        /\ last.op = "get_statistics" =>
               /\ last.resp[1].total_tasks = Cardinality(DOMAIN tasks)
               /\ last.resp[1].pending_tasks =
                      Cardinality({id \in DOMAIN tasks : tasks[id].status = "Pending"})
               /\ last.resp[1].completed_tasks =
                      Cardinality({id \in DOMAIN tasks : tasks[id].status = "Completed"})

\* During the wait the entry changes only by a later update_task_status on
\* the same id, to the status of that request.
C13_UntilOverwritten ==
    \A h \in Waiting :
        (h \in BagToSet(in_flight') /\ tasks'[h.task_id] # tasks[h.task_id]) =>
            /\ last'.op = "update_task_status"
            /\ last'.arg.task_id = h.task_id
            /\ tasks'[h.task_id] =
                   [tasks[h.task_id] EXCEPT !.status = last'.arg.new_status]

\* C13 (amended): while the storage call of a create_task or update_task_status
\* is pending the mutation is already in the registry, and get_task,
\* get_all_tasks, get_tasks_by_status and get_statistics handled during the
\* wait observe the new task, with the status written last: the one of the
\* waiting request unless a later update_task_status on the same id was
\* handled since.
C13_VisibleWhilePending ==
    /\ [](C13_Applied /\ C13_Reads)
    /\ [][C13_UntilOverwritten]_vars

C13_Witness ==
    /\ last.op = "get_task"
    /\ \E h \in Waiting :
           /\ h.handler = "update_task_status"
           /\ h.task_id = last.arg
           /\ h.task[1].status = "Completed"
           /\ last.resp[1].task[1].status = "Completed"
    /\ \E h \in Waiting : h.handler = "create_task"

\* The step is handle_websocket taking a Close frame, or a Binary frame that
\* decodes to Unsubscribe, on channel c.
C14_Leaves(c) ==
    /\ delivered' # delivered
    /\ last'.op = "handle_websocket"
    /\ last'.arg.channel_id = c
    /\ \/ last'.arg.message_type = "Close"
       \/ /\ last'.arg.message_type = "Binary"
          /\ from_slice(last'.arg.blob).ok
          /\ from_slice(last'.arg.blob).value.variant = "Unsubscribe"

C14_Step ==
    \A c \in Channels :
        /\ C14_Leaves(c) =>
               /\ DOMAIN active_ws_connections' = DOMAIN active_ws_connections \ {c}
               /\ \A d \in DOMAIN active_ws_connections' :
                      active_ws_connections'[d] = active_ws_connections[d]
               /\ last'.sends = <<>>
               /\ UNCHANGED <<tasks, request_count, task_creation_count, in_flight>>
        \* only a Subscribe on c brings c into the directory
        /\ (c \notin DOMAIN active_ws_connections /\ c \in DOMAIN active_ws_connections') =>
               /\ last'.op = "handle_websocket"
               /\ last'.arg.channel_id = c
               /\ last'.arg.message_type = "Binary"
               /\ from_slice(last'.arg.blob).value.variant = "Subscribe"

C14_NoClosedChannel ==
    /\ \A c \in Channels : ws_left[c] = "Close" => c \notin DOMAIN active_ws_connections
    /\ \A i \in 1..Len(last.sends) : ws_left[last.sends[i].channel_id] = "no"

\* C14: Unsubscribe and Close on channel c take c out of the subscriber
\* directory when it is there and change nothing when it is not; a channel
\* that was closed is in the directory in no reachable state (until a new
\* Subscribe arrives on the same identifier) and no push goes to it.
C14_Unsubscribe == [](C14_NoClosedChannel) /\ [][C14_Step]_vars

C14_Witness ==
    /\ last.op = "handle_websocket"
    /\ last.arg.message_type = "Close"
    /\ ws_left[last.arg.channel_id] = "Unsubscribe"
    /\ last.arg.channel_id \notin DOMAIN active_ws_connections

\* The step is handle_websocket taking a Binary frame that decodes to
\* Subscribe { client_id } on channel c.
C15_Subscribes(c, client_id) ==
    /\ delivered' # delivered
    /\ last'.op = "handle_websocket"
    /\ last'.arg.channel_id = c
    /\ last'.arg.message_type = "Binary"
    /\ from_slice(last'.arg.blob) =
           [ok |-> TRUE, value |-> [variant |-> "Subscribe", client_id |-> client_id]]

C15_Step ==
    \A c \in Channels, client_id \in ClientIds :
        C15_Subscribes(c, client_id) =>
            /\ DOMAIN active_ws_connections' = DOMAIN active_ws_connections \cup {c}
            /\ active_ws_connections'[c] = client_id
            /\ \A d \in DOMAIN active_ws_connections \ {c} :
                   active_ws_connections'[d] = active_ws_connections[d]
            /\ Len(last'.sends) = 1
            /\ last'.sends[1].channel_id = c
            /\ \E list \in {values(tasks)} :
                   /\ last'.sends[1].payload = to_vec(list)
                   /\ {list[i] : i \in 1..Len(list)} = {tasks[id] : id \in DOMAIN tasks}
                   /\ Len(list) = Cardinality(DOMAIN tasks)
            /\ tasks' = tasks

\* C15: a Subscribe { client_id } on channel c leaves one directory entry for
\* c, holding the client_id of this frame also when c was subscribed before,
\* leaves the other entries alone, and makes one push, to c, of the full
\* current task list.
C15_Subscribe == [][C15_Step]_vars

C15_Witness ==
    /\ last.op = "handle_websocket"
    /\ last.arg.message_type = "Binary"
    /\ from_slice(last.arg.blob) =
           [ok |-> TRUE, value |-> [variant |-> "Subscribe", client_id |-> "bob"]]
    /\ active_ws_connections =
           [c \in Channels |-> IF c = last.arg.channel_id THEN "bob" ELSE "alice"]
    /\ Len(last.sends) = 1
    /\ last.sends[1].channel_id = last.arg.channel_id
    /\ last.sends[1].payload = to_vec(values(tasks))
    /\ Cardinality(DOMAIN tasks) >= 2

\* create_task when Uuid::new_v4() returns an identifier that is a key of the
\* registry already.
create_task_collide ==
    /\ delivered < MaxMessages
    /\ \E task_id \in DOMAIN tasks, new_task_req \in NewTaskRequest :
         create_task_with(task_id, new_task_req)

NextCollide == Next \/ create_task_collide

\* The process with an identifier generator that may repeat itself.
SpecCollide == Init /\ [][NextCollide]_vars

C16_CreateStep ==
    (delivered' # delivered /\ last'.op = "create_task") =>
        \A id \in DOMAIN tasks : id \in DOMAIN tasks' /\ tasks'[id] = tasks[id]

\* C16: a create_task whose generated identifier is a key of the registry
\* already does not replace or drop the task held under that key.
C16_NoSilentOverwrite == [][C16_CreateStep]_vars

\* Requests the host delivers in one run of the liveness specification.
MaxLiveMessages == 2

\* The storage call carries a timeout (add_task_remote_rpc(.., 5)) and the
\* load one too, so each of them resolves; the runtime then resumes the
\* handler that waits for it.  Nothing obliges a client to send a request.
Fairness ==
    /\ WF_vars(initialize)
    /\ WF_vars(initialize_reply)
    /\ WF_vars(create_task_reply)
    /\ WF_vars(update_task_status_reply)

NextLive ==
    \/ initialize
    \/ initialize_reply
    \/ create_task_reply
    \/ update_task_status_reply
    \/ delivered < MaxLiveMessages /\ create_task
    \/ delivered < MaxLiveMessages /\ get_all_tasks
    \/ delivered < MaxLiveMessages /\ get_task
    \/ delivered < MaxLiveMessages /\ update_task_status
    \/ delivered < MaxLiveMessages /\ get_statistics
    \/ delivered < MaxLiveMessages /\ get_tasks_by_status
    \/ delivered < MaxLiveMessages /\ handle_websocket

SpecLive == Init /\ [][NextLive]_vars /\ Fairness

\* One storage call per mutation: the step of a create_task, or of an
\* update_task_status on a present id, suspends one handler at one call; the
\* step that resumes a handler returns its response, takes that handler out
\* and issues no other call; no other step touches the calls.
C17_OneCall ==
    /\ (delivered' # delivered /\ last'.op = "create_task") =>
           in_flight' = in_flight (+) SetToBag({Suspended("create_task", last'.local.task_id,
                                                          Some(tasks'[last'.local.task_id]))})
    /\ (delivered' # delivered /\ last'.op = "update_task_status") =>
           in_flight' = IF last'.resp = None
                        THEN in_flight (+) SetToBag({Suspended("update_task_status",
                                                               last'.arg.task_id,
                                                               Some(tasks'[last'.arg.task_id]))})
                        ELSE in_flight
    /\ (delivered' = delivered /\ Returned') =>
           /\ last'.resp # None
           /\ last'.arg.kind \in {"Success"} \cup SendFailures
           /\ BagIn(last'.local, in_flight)
           /\ in_flight = in_flight' (+) SetToBag({last'.local})
    /\ (delivered' = delivered /\ phase = "serving" /\ vars' # vars) => Returned'
    /\ (delivered' # delivered /\ last'.op \notin {"create_task", "update_task_status"}) =>
           in_flight' = in_flight

\* C17: every create_task and every update_task_status on a present id
\* eventually returns its response: the storage call it waits on is issued
\* once, resolves to Success, Timeout, Offline or DeserializationError, and
\* the handler it resumes returns without issuing it again, so that no
\* handler is left waiting.
C17_EventuallyReturns ==
    /\ [][C17_OneCall]_vars
    /\ [](in_flight # EmptyBag => <>Returned)
    /\ <>[](in_flight = EmptyBag)

C17_Witness ==
    /\ last.op = "update_task_status_reply"
    /\ last.arg.kind = "Timeout"
    /\ last.resp[1].success
    /\ ~last.resp[1].storage_status
    /\ in_flight = EmptyBag
    /\ delivered = MaxLiveMessages
    /\ task_creation_count >= 1

\* C18: when update_task_status(id, S) returns, the task of its response and
\* the task of each push of its broadcast have status S, whatever was
\* handled while it waited for the storage.
C18_ResponseCarriesRequest ==
    last.op = "update_task_status_reply" =>
        /\ last.resp[1].success
        /\ last.resp[1].task[1].id = last.local.task_id
        /\ last.resp[1].task[1].status = last.local.task[1].status
        /\ \A i \in 1..Len(last.sends) :
               last.sends[i].payload = to_vec(last.local.task[1])

\* The task the i-th push of the step taken last carries.
C19_Pushed(i) == last.sends[i].payload[2]

\* C19: once every create_task and update_task_status has returned, the
\* broadcast made last (nothing was handled after it) carries, for its task,
\* the status the registry holds: no subscribed channel is left with a status
\* the registry has left behind.
C19_NoStaleBroadcast ==
    (Returned /\ in_flight = EmptyBag) =>
        \A i \in 1..Len(last.sends) :
            C19_Pushed(i).status = tasks[C19_Pushed(i).id].status

\* The frame is a Binary frame that decodes as Subscribe.
C20_IsSubscribe(frame) ==
    /\ frame.message_type = "Binary"
    /\ from_slice(frame.blob) \in
           {[ok |-> TRUE, value |-> m] : m \in WebSocketMessage \ {[variant |-> "Unsubscribe"]}}

\* What each kind of step adds to request_count and to task_creation_count,
\* when a Subscribe message adds on_subscribe to request_count.
C20_Accounting(on_subscribe) ==
    LET requests == request_count' - request_count
        creations == task_creation_count' - task_creation_count
    IN
    /\ requests >= 0
    /\ creations >= 0
    /\ last'.op = "create_task" => requests = 1 /\ creations = 1
    /\ last'.op \in {"get_all_tasks", "get_task", "update_task_status"} =>
           requests = 1 /\ creations = 0
    /\ last'.op \in {"get_statistics", "get_tasks_by_status"} =>
           requests = 0 /\ creations = 0
    /\ last'.op = "handle_websocket" =>
           /\ creations = 0
           /\ requests = IF C20_IsSubscribe(last'.arg) THEN on_subscribe ELSE 0
    /\ last'.op \notin {"create_task", "get_all_tasks", "get_task", "update_task_status",
                        "get_statistics", "get_tasks_by_status", "handle_websocket"} =>
           requests = 0 /\ creations = 0

\* C20 as stated: no WebSocket message, Subscribe included, changes
\* request_count.
C20_Original == [][C20_Accounting(0)]_vars

\* C20: request_count grows by one on each create_task, get_all_tasks,
\* get_task and update_task_status request and on each Subscribe message,
\* whose initial list comes from get_all_tasks; get_statistics,
\* get_tasks_by_status, Unsubscribe, Close and ignored frames, and the
\* completion of a storage call, leave it alone.  task_creation_count grows
\* by one on each create_task and on nothing else.  Neither ever decreases.
C20_CounterAccounting == [][C20_Accounting(1)]_vars

C20_Witness ==
    /\ last.op = "handle_websocket"
    /\ C20_IsSubscribe(last.arg)
    /\ delivered = 3
    /\ request_count = 3
    /\ task_creation_count = 1

Spec == Init /\ [][Next]_vars
====
